---------------------------- MODULE Spec2Model ----------------------------
(***************************************************************************)
(* flame-limit: the rate-decision engine.  Three counting strategies       *)
(* (fixed window, sliding window, token bucket) run against a key-value    *)
(* store with per-entry expiry (an in-process Map, or a networked Redis    *)
(* client).  Time is Date.now() in milliseconds.                           *)
(*                                                                         *)
(* Every JavaScript number is an IEEE-754 binary64.  Counts, weights and   *)
(* timestamps stay small integers, which binary64 represents exactly, and  *)
(* are modelled as integers.  The token bucket's tokens, its refill rate   *)
(* and the sliding window's time ratio are fractions: they are modelled    *)
(* as binary64 values (odd mantissa m, exponent e, value m * 2^e), every   *)
(* operation rounded to 53 significant bits, ties to even, as the          *)
(* hardware rounds it.                                                     *)
(***************************************************************************)
EXTENDS Integers, Sequences, FiniteSets, TLC

(***************************************************************************)
(* Natural numbers of any size: little-endian sequences of 15-bit limbs    *)
(* with no leading zero limb (zero is the empty sequence).  They carry     *)
(* the 53-bit mantissas and the wider intermediate results of binary64     *)
(* arithmetic.                                                             *)
(***************************************************************************)
LimbBits == 15

LimbBase == 32768

MantBits == 53

Pow2(k) == 2 ^ k

SetMax(S) == CHOOSE x \in S : \A y \in S : y <= x

SetMin(S) == CHOOSE x \in S : \A y \in S : x <= y

\* limb i of a, zero beyond its length
Limb(a, i) == IF i >= 1 /\ i <= Len(a) THEN a[i] ELSE 0

BigNorm(a) ==
    LET nz == {i \in 1..Len(a) : a[i] # 0}
    IN  IF nz = {} THEN <<>> ELSE SubSeq(a, 1, SetMax(nz))

\* for 0 <= n < 2^31
BigFromNat(n) ==
    BigNorm(<<n % LimbBase, (n \div LimbBase) % LimbBase,
              n \div (LimbBase * LimbBase)>>)

\* for a < 2^31
BigToNat(a) == Limb(a, 1) + LimbBase * (Limb(a, 2) + LimbBase * Limb(a, 3))

BigCmp(a, b) ==
    IF Len(a) < Len(b) THEN -1
    ELSE IF Len(a) > Len(b) THEN 1
    ELSE LET df == {i \in 1..Len(a) : a[i] # b[i]}
         IN  IF df = {} THEN 0
             ELSE IF a[SetMax(df)] < b[SetMax(df)] THEN -1 ELSE 1

\* The carry into limb i is 1 when a lower limb generates one and every
\* limb between passes it on.
BigAdd(a, b) ==
    IF a = <<>> THEN BigNorm(b)
    ELSE IF b = <<>> THEN BigNorm(a)
    ELSE
    LET n == IF Len(a) > Len(b) THEN Len(a) ELSE Len(b)
        carry(i) ==
            \E j \in 1..(i - 1) :
                /\ Limb(a, j) + Limb(b, j) >= LimbBase
                /\ \A k \in (j + 1)..(i - 1) :
                       Limb(a, k) + Limb(b, k) = LimbBase - 1
    IN  BigNorm([i \in 1..(n + 1) |->
            (Limb(a, i) + Limb(b, i) + (IF carry(i) THEN 1 ELSE 0))
                % LimbBase])

\* a - b, for a >= b
BigSub(a, b) ==
    IF b = <<>> THEN a
    ELSE
    LET borrow(i) ==
            \E j \in 1..(i - 1) :
                /\ Limb(a, j) < Limb(b, j)
                /\ \A k \in (j + 1)..(i - 1) : Limb(a, k) = Limb(b, k)
    IN  BigNorm([i \in 1..Len(a) |->
            (a[i] - Limb(b, i) - (IF borrow(i) THEN 1 ELSE 0) + LimbBase)
                % LimbBase])

BigZeros(n) == [i \in 1..n |-> 0]

\* a * s, for 0 <= s <= LimbBase: the low and the high halves of the limb
\* products, added
BigMulSmall(a, s) ==
    IF a = <<>> \/ s = 0 THEN <<>>
    ELSE BigAdd(SubSeq([i \in 1..Len(a) |-> (a[i] * s) % LimbBase], 1, Len(a)),
                <<0>> \o [i \in 1..Len(a) |-> (a[i] * s) \div LimbBase])

\* a * 2^k
BigShl(a, k) ==
    IF a = <<>> \/ k = 0 THEN a
    ELSE BigZeros(k \div LimbBits) \o BigMulSmall(a, Pow2(k % LimbBits))

\* floor(a / 2^k)
BigShr(a, k) ==
    IF a = <<>> \/ k = 0 THEN a
    ELSE
    LET drop == k \div LimbBits
        j == k % LimbBits
        n == Len(a) - drop
    IN  IF n <= 0 THEN <<>>
        ELSE BigNorm([i \in 1..n |->
                 (a[i + drop] \div Pow2(j))
                 + (Limb(a, i + drop + 1) % Pow2(j)) * Pow2(LimbBits - j)])

\* a * b, for b of at most 4 limbs (a binary64 mantissa has 53 bits)
BigMul(a, b) ==
    IF a = <<>> \/ b = <<>> THEN <<>>
    ELSE
    BigAdd(BigAdd(BigMulSmall(a, Limb(b, 1)),
                  BigNorm(<<0>> \o BigMulSmall(a, Limb(b, 2)))),
           BigAdd(BigNorm(<<0, 0>> \o BigMulSmall(a, Limb(b, 3))),
                  BigNorm(<<0, 0, 0>> \o BigMulSmall(a, Limb(b, 4)))))

\* the number of bits of 0 <= n < 2^LimbBits
NatBitLen(n) == SetMin({k \in 0..LimbBits : n < Pow2(k)})

BigBitLen(a) ==
    IF a = <<>> THEN 0
    ELSE LimbBits * (Len(a) - 1) + NatBitLen(a[Len(a)])

\* bit i (0 = least significant) of a
BigBit(a, i) == (Limb(a, (i \div LimbBits) + 1) \div Pow2(i % LimbBits)) % 2

\* the number of trailing zero bits of a # 0
BigTrailingZeros(a) ==
    LET i == SetMin({j \in 1..Len(a) : a[j] # 0})
    IN  LimbBits * (i - 1)
        + SetMin({k \in 0..LimbBits : a[i] % Pow2(k + 1) # 0})

\* the largest digit q <= qhat with d * q <= r
RECURSIVE BigDigitFix(_, _, _)
BigDigitFix(r, d, qhat) ==
    IF BigCmp(BigMulSmall(d, qhat), r) > 0 THEN BigDigitFix(r, d, qhat - 1)
    ELSE qhat

\* One quotient digit of schoolbook long division: floor(r / d) for
\* r < d * LimbBase, d's top limb at least LimbBase / 2.  The estimate from
\* the top limbs is at most 2 too large.
BigDigit(r, d) ==
    LET k == Len(d)
        est == (Limb(r, k + 1) * LimbBase + Limb(r, k)) \div d[k]
    IN  BigDigitFix(r, d, IF est > LimbBase - 1 THEN LimbBase - 1 ELSE est)

RECURSIVE BigDivFrom(_, _, _, _, _)
RECURSIVE BigDivStep(_, _, _, _, _)
RECURSIVE BigDivDigit(_, _, _, _, _, _)
\* long division, high limb first: limbs i..1 of n brought down onto the
\* remainder r, the quotient digits collected in q
BigDivFrom(n, d, i, q, r) ==
    IF i = 0 THEN [q |-> BigNorm(q), r |-> r]
    ELSE BigDivStep(n, d, i, q, BigNorm(<<n[i]>> \o r))

\* r1: the remainder with limb i brought down
BigDivStep(n, d, i, q, r1) ==
    IF BigCmp(r1, d) < 0 THEN BigDivFrom(n, d, i - 1, <<0>> \o q, r1)
    ELSE BigDivDigit(n, d, i, q, r1, BigDigit(r1, d))

\* g: the quotient digit of this step
BigDivDigit(n, d, i, q, r1, g) ==
    IF g = 0 THEN BigDivFrom(n, d, i - 1, <<0>> \o q, r1)
    ELSE BigDivFrom(n, d, i - 1, <<g>> \o q, BigSub(r1, BigMulSmall(d, g)))

\* ns / ds for ds with its top limb at least LimbBase / 2
BigDivShifted(ns, ds) ==
    IF Len(ns) < Len(ds) THEN [q |-> <<>>, r |-> ns]
    ELSE BigDivFrom(ns, ds, Len(ns) - Len(ds) + 1, <<>>,
                    SubSeq(ns, Len(ns) - Len(ds) + 2, Len(ns)))

BigDivUnshift(qr, s) == [q |-> qr.q, r |-> BigShr(qr.r, s)]

\* [q |-> floor(n / d), r |-> n mod d], for d # 0
BigDivMod(n, d) ==
    LET s == LimbBits - NatBitLen(d[Len(d)])
    IN  BigDivUnshift(BigDivShifted(BigShl(n, s), BigShl(d, s)), s)

(***************************************************************************)
(* binary64 values >= 0, as [m, e] with m odd (or zero, with e = 0): the   *)
(* value m * 2^e.  The form is canonical, so equal values are equal        *)
(* records.  The magnitudes of this program stay far from the subnormal    *)
(* and the overflow range.  The operations take operands >= 0; only a      *)
(* subtraction can yield a value below zero, which it marks as such.       *)
(***************************************************************************)
DblZero == [m |-> <<>>, e |-> 0]

DblCanon(n, e) ==
    IF n = <<>> THEN DblZero
    ELSE LET z == BigTrailingZeros(n)
         IN  [m |-> BigShr(n, z), e |-> e + z]

\* q rounded up when the dropped part is above one half (c > 0), or is one
\* half (c = 0) and either more follows (sticky) or q is odd
DblRoundUp(q, c, e, sticky) ==
    IF c > 0 \/ (c = 0 /\ (sticky \/ BigBit(q, 0) = 1))
    THEN DblCanon(BigAdd(q, <<1>>), e)
    ELSE DblCanon(q, e)

\* n with its low shift bits dropped and rounded
DblRoundTo(n, e, sticky, shift) ==
    DblRoundUp(BigShr(n, shift),
               BigCmp(BigSub(n, BigShl(BigShr(n, shift), shift)),
                      BigShl(<<1>>, shift - 1)),
               e + shift, sticky)

\* (n + a fraction in (0,1) when sticky) * 2^e, rounded to MantBits
\* significant bits, ties to even
DblRound(n, e, sticky) ==
    IF n = <<>> THEN DblZero
    ELSE IF BigBitLen(n) <= MantBits THEN DblCanon(n, e)
    ELSE DblRoundTo(n, e, sticky, BigBitLen(n) - MantBits)

\* for 0 <= n < 2^31
DblFromInt(n) == DblCanon(BigFromNat(n), 0)

DblCmp(x, y) ==
    LET lo == IF x.e < y.e THEN x.e ELSE y.e
    IN  BigCmp(BigShl(x.m, x.e - lo), BigShl(y.m, y.e - lo))

DblLt(x, y) == DblCmp(x, y) < 0

DblAdd(x, y) ==
    IF x.m = <<>> THEN y
    ELSE IF y.m = <<>> THEN x
    ELSE LET lo == IF x.e < y.e THEN x.e ELSE y.e
         IN  DblRound(BigAdd(BigShl(x.m, x.e - lo), BigShl(y.m, y.e - lo)),
                      lo, FALSE)

\* x - y, for x >= y
DblDiff(x, y) ==
    IF y.m = <<>> THEN x
    ELSE LET lo == IF x.e < y.e THEN x.e ELSE y.e
         IN  DblRound(BigSub(BigShl(x.m, x.e - lo), BigShl(y.m, y.e - lo)),
                      lo, FALSE)

\* a value below zero carries the field neg beside its magnitude
DblIsNeg(x) == "neg" \in DOMAIN x

DblNeg(x) == [m |-> x.m, e |-> x.e, neg |-> TRUE]

\* x - y, for x, y >= 0
DblSub(x, y) ==
    IF DblLt(x, y) THEN DblNeg(DblDiff(y, x)) ELSE DblDiff(x, y)

DblMul(x, y) ==
    IF x.m = <<>> \/ y.m = <<>> THEN DblZero
    ELSE DblRound(BigMul(x.m, y.m), x.e + y.e, FALSE)

\* the quotient, the remainder as the sticky bit
DblDivRound(qr, e) == DblRound(qr.q, e, qr.r # <<>>)

\* x / y, for y # 0: a quotient of at least MantBits + 2 bits
DblDiv(x, y) ==
    IF x.m = <<>> \/ y.m = <<>> THEN DblZero
    ELSE LET want == MantBits + 2 + BigBitLen(y.m) - BigBitLen(x.m)
             s == IF want > 0 THEN want ELSE 0
         IN  DblDivRound(BigDivMod(BigShl(x.m, s), y.m), x.e - y.e - s)

DblMin(x, y) == IF DblLt(y, x) THEN y ELSE x

\* Math.floor and Math.ceil, as integers
DblFloor(x) ==
    IF x.e >= 0 THEN BigToNat(BigShl(x.m, x.e))
    ELSE BigToNat(BigShr(x.m, 0 - x.e))

DblCeil(x) ==
    IF x.e >= 0 THEN BigToNat(BigShl(x.m, x.e))
    ELSE BigToNat(BigShr(x.m, 0 - x.e)) + 1

(***************************************************************************)
(* Bounds of the model, and the configurations a limiter is built with.    *)
(***************************************************************************)
MaxTime == 9

MaxStep == 2

MaxWeight == 2

\* <<strategy, limit, windowMs>>
Configs == {<<"fixed", 2, 4>>,
            <<"sliding", 2, 4>>, <<"sliding", 5, 5>>,
            <<"token", 2, 4>>, <<"token", 1, 6>>}

Backends == {"memory", "redis"}

Identities == {"a"}

Weights == 1..MaxWeight

KeyPrefix == "flame-limit:"

MsPerSec == 1000

\* what a store's get answers for a key it does not hold
Absent == [absent |-> TRUE]

\* what `await this.store.get(...)` comes to when get throws
Raised == [raised |-> TRUE]

NoDecision == [limited |-> FALSE, remaining |-> 0, resetTime |-> 0,
               consumed |-> 0]

NoOp == [op |-> "none", id |-> "", weight |-> 0, at |-> 0,
         dec |-> NoDecision, before |-> <<>>]

\* no call in flight
NoFlight == [heap |-> <<>>, map |-> <<>>, calls |-> <<>>, events |-> 0]

VARIABLES
    strategy,   \* the configured strategy
    backend,    \* the configured store
    limit,      \* options.limit
    windowMs,   \* options.windowMs
    weightByPath,   \* options.weightByPath
    weights,    \* options.weights, as declared: <<[pattern, weight], ...>>
    redisClient,    \* options.redisClient is given
    built,      \* what flameLimit(options) came to
    now,        \* Date.now()
    store,      \* the store's entries, by prefixed key
    flight,     \* the memory store's objects and the calls in flight
    last,       \* the last call and the Decision it returned
    hist        \* per identity, what the calls so far amount to

vars == <<strategy, backend, limit, windowMs, weightByPath, weights, redisClient, built, now, store, flight, last, hist>>

config == <<strategy, backend, limit, windowMs, weightByPath, weights, redisClient, built>>

NatMax(a, b) == IF a > b THEN a ELSE b

\* f with key k set to v
Put(f, k, v) == [x \in DOMAIN f \cup {k} |-> IF x = k THEN v ELSE f[x]]

\* f without the keys in ks
Drop(f, ks) == [x \in DOMAIN f \ ks |-> f[x]]

(***************************************************************************)
(* MemoryStore: a Map from prefixed key to the value object itself, which  *)
(* set() stamps with _expireAt.  get() hands out the stored object, not a  *)
(* copy, and does not look at _expireAt; only gc() removes entries.        *)
(***************************************************************************)
MemoryGet(st, key) ==
    LET prefixedKey == KeyPrefix \o key
    IN  IF prefixedKey \in DOMAIN st THEN st[prefixedKey] ELSE Absent

MemorySet(st, key, value, ttl, t) ==
    LET prefixedKey == KeyPrefix \o key
        stamped == [f \in DOMAIN value \cup {"expireAt"} |->
                       IF f = "expireAt" THEN t + ttl ELSE value[f]]
    IN  Put(st, prefixedKey, stamped)

MemoryGc(st, t) ==
    Drop(st, {k \in DOMAIN st : st[k].expireAt <= t})

(***************************************************************************)
(* RedisStore: values travel as JSON text; the server holds each text      *)
(* with the time it expires at (SETEX, whole seconds).                     *)
(***************************************************************************)
JsonStringify(value) == [json |-> value]

\* a get without the try around JSON.parse: the SyntaxError gets out
JsonParseThrows(text) == IF "json" \in DOMAIN text THEN text.json ELSE Raised

\* JSON.parse, or Absent where it throws
JsonParse(text) == IF "json" \in DOMAIN text THEN text.json ELSE Absent

RedisGet(st, key, t) ==
    LET prefixedKey == KeyPrefix \o key
    IN  IF prefixedKey \in DOMAIN st /\ t < st[prefixedKey].exp
        THEN JsonParse(st[prefixedKey].text)
        ELSE Absent

\* a SETEX whose seconds are rounded down
RedisSetFloor(st, key, value, ttl, t) ==
    LET prefixedKey == KeyPrefix \o key
        seconds == ttl \div MsPerSec
    IN  Put(st, prefixedKey,
            [text |-> JsonStringify(value), exp |-> t + seconds * MsPerSec])

RedisSet(st, key, value, ttl, t) ==
    LET prefixedKey == KeyPrefix \o key
        seconds == (ttl + MsPerSec - 1) \div MsPerSec
    IN  Put(st, prefixedKey,
            [text |-> JsonStringify(value), exp |-> t + seconds * MsPerSec])

\* the server drops a key when its time is up
RedisExpire(st, t) == Drop(st, {k \in DOMAIN st : st[k].exp <= t})

StoreGet(st, key, t) ==
    IF backend = "memory" THEN MemoryGet(st, key) ELSE RedisGet(st, key, t)

StoreSet(st, key, value, ttl, t) ==
    IF backend = "memory" THEN MemorySet(st, key, value, ttl, t)
    ELSE RedisSet(st, key, value, ttl, t)

\* The object a strategy changed without calling set: the Map's entry is that
\* same object, a parsed JSON text is a copy.
StoreAlias(st, key, value) ==
    IF backend = "memory" /\ (KeyPrefix \o key) \in DOMAIN st
    THEN Put(st, KeyPrefix \o key, value)
    ELSE st

(***************************************************************************)
(* The strategies.  Each consume is given the store, the identity, the     *)
(* weight and the clock reading, and answers the store it leaves and the   *)
(* Decision it returns.                                                    *)
(***************************************************************************)
WindowStart(t) == (t \div windowMs) * windowMs

\* the consume that threw
Failure == [limited |-> FALSE, remaining |-> 0, resetTime |-> 0,
            consumed |-> 0, failed |-> TRUE]

IsFailure(dec) == "failed" \in DOMAIN dec

Thrown(st) == [store |-> st, dec |-> Failure]

\* a key that leaves the window out: every window shares one record
WindowKeyUnwindowed(key, windowStart) == key

\* `${key}:${windowStart}`
WindowKey(key, windowStart) == key \o ":" \o ToString(windowStart)

TokenKey(key) == key \o ":token"

\* admission tests that are off by one, either way
OverLimitLax(total) == total > limit + 1

OverLimitStrict(total) == total >= limit

\* limited = newCount > this.limit
OverLimit(total) == total > limit

\* a Decision that reports the weight also when it rejects
ConsumedAlways(limited, weight) == weight

\* consumed: limited ? 0 : weight
Consumed(limited, weight) == IF limited THEN 0 ELSE weight

\* store.set moved out of the if: a rejected call writes the record back
CommitAlways(st, storeKey, record, newCount, limited, ttl, t) ==
    StoreSet(st, storeKey,
             IF limited THEN record ELSE [record EXCEPT !.count = newCount],
             ttl, t)

\* if (!limited) { record.count = newCount; await this.store.set(...) }
Commit(st, storeKey, record, newCount, limited, ttl, t) ==
    IF ~limited
    THEN StoreSet(st, storeKey, [record EXCEPT !.count = newCount], ttl, t)
    ELSE st

FixedConsume(st, key, weight, t) ==
    LET windowStart == WindowStart(t)
        windowEnd == windowStart + windowMs
        storeKey == WindowKey(key, windowStart)
        got == StoreGet(st, storeKey, t)
        record == IF got = Absent
                  THEN [count |-> 0, resetTime |-> windowEnd]
                  ELSE got
        newCount == record.count + weight
        remaining == NatMax(0, limit - newCount)
        limited == OverLimit(newCount)
    IN  IF got = Raised THEN Thrown(st)
        ELSE [store |-> Commit(st, storeKey, record, newCount, limited,
                               windowMs, t),
              dec |-> [limited |-> limited,
                       remaining |-> remaining,
                       resetTime |-> record.resetTime,
                       consumed |-> Consumed(limited, weight)]]

\* Math.floor(previousCount * (1 - timeElapsed / windowMs)), in binary64
EffectivePreviousCount(previousCount, timeElapsed) ==
    LET timeRatio == DblSub(DblFromInt(1),
                            DblDiv(DblFromInt(timeElapsed),
                                   DblFromInt(windowMs)))
    IN  DblFloor(DblMul(DblFromInt(previousCount), timeRatio))

\* the admission test and the Decision, once the weighted previous count
\* is known
SlidingDecide(st, currentKey, currentRecord, weight, t, effectivePreviousCount) ==
    LET newCount == currentRecord.count + weight
        effectiveNewTotal == effectivePreviousCount + newCount
        remaining == NatMax(0, limit - effectiveNewTotal)
        limited == OverLimit(effectiveNewTotal)
    IN  [store |-> Commit(st, currentKey, currentRecord, newCount, limited,
                          windowMs * 2, t),
         dec |-> [limited |-> limited,
                  remaining |-> remaining,
                  resetTime |-> currentRecord.resetTime,
                  consumed |-> Consumed(limited, weight),
                  currentCount |-> IF limited THEN currentRecord.count
                                   ELSE newCount,
                  previousCount |-> effectivePreviousCount]]

SlidingConsume(st, key, weight, t) ==
    LET currentWindow == WindowStart(t)
        previousWindow == currentWindow - windowMs
        currentKey == WindowKey(key, currentWindow)
        previousKey == WindowKey(key, previousWindow)
        gotCurrent == StoreGet(st, currentKey, t)
        previousRecord == StoreGet(st, previousKey, t)
        currentRecord == IF gotCurrent = Absent
                         THEN [count |-> 0,
                               resetTime |-> currentWindow + windowMs]
                         ELSE gotCurrent
        previousCount == IF previousRecord = Absent THEN 0
                         ELSE previousRecord.count
        timeElapsed == t - currentWindow
    IN  IF gotCurrent = Raised \/ previousRecord = Raised THEN Thrown(st)
        ELSE SlidingDecide(st, currentKey, currentRecord, weight, t,
                           EffectivePreviousCount(previousCount,
                                                  timeElapsed))

\* this.limit / this.windowMs
RefillRate == DblDiv(DblFromInt(limit), DblFromInt(windowMs))

\* a refill without the cap at capacity
RefillUncapped(bucket, t) ==
    IF t - bucket.lastRefill > 0
    THEN [bucket EXCEPT
            !.tokens = DblAdd(bucket.tokens,
                              DblMul(DblFromInt(t - bucket.lastRefill),
                                     RefillRate)),
            !.lastRefill = t]
    ELSE bucket

\* the bucket after the refill step
Refill(bucket, t) ==
    IF t - bucket.lastRefill > 0
    THEN [bucket EXCEPT
            !.tokens = DblMin(DblFromInt(limit),
                              DblAdd(bucket.tokens,
                                     DblMul(DblFromInt(t - bucket.lastRefill),
                                            RefillRate))),
            !.lastRefill = t]
    ELSE bucket

\* bucket.tokens === 0 after the debit: the reset time moves
Debited(bucket, tokens, weight, t) ==
    IF tokens = DblZero
    THEN [bucket EXCEPT
            !.tokens = tokens,
            !.resetTime = t + DblCeil(DblDiv(DblFromInt(weight),
                                             RefillRate))]
    ELSE [bucket EXCEPT !.tokens = tokens]

\* the bucket after an admitted debit
Debit(bucket, weight, t) ==
    Debited(bucket, DblSub(bucket.tokens, DblFromInt(weight)), weight, t)

\* the store and the Decision of an admitted call
TokenAdmit(st, storeKey, debited, remaining, weight, t) ==
    [store |-> StoreSet(st, storeKey, debited, windowMs * 2, t),
     dec |-> [limited |-> FALSE,
              remaining |-> DblFloor(remaining),
              resetTime |-> debited.resetTime,
              consumed |-> Consumed(FALSE, weight)]]

\* the admission test and the Decision, for the bucket as refilled
TokenDecide(st, storeKey, bucket, weight, t) ==
    IF DblLt(bucket.tokens, DblFromInt(weight))
    THEN [store |-> StoreAlias(st, storeKey, bucket),
          dec |-> [limited |-> TRUE,
                   remaining |-> DblFloor(DblZero),
                   resetTime |->
                       t + DblCeil(DblDiv(DblSub(DblFromInt(weight),
                                                 bucket.tokens),
                                          RefillRate)),
                   consumed |-> Consumed(TRUE, weight)]]
    ELSE TokenAdmit(st, storeKey, Debit(bucket, weight, t),
                    DblSub(bucket.tokens, DblFromInt(weight)), weight, t)

TokenConsume(st, key, weight, t) ==
    LET storeKey == TokenKey(key)
        got == StoreGet(st, storeKey, t)
        fresh == [tokens |-> DblFromInt(limit), lastRefill |-> t,
                  resetTime |-> t + windowMs]
    IN  IF got = Raised THEN Thrown(st)
        ELSE TokenDecide(st, storeKey,
                         Refill(IF got = Absent THEN fresh ELSE got, t),
                         weight, t)

(***************************************************************************)
(* What the calls so far amount to, per identity.  For the window          *)
(* strategies: the aligned window of the latest consume, the weight        *)
(* admitted in it, the number of consumes issued in it and whether all of  *)
(* them had weight 1.  For the token bucket: where the identity stands in  *)
(* a run of weight-1 consumes that starts on a fresh identity ("burst":    *)
(* n consumes at the instant t0; "empty": limit of them were issued, the   *)
(* last at t0; "refilled": one more was issued windowMs / limit later, at  *)
(* t0), and what that run lets one expect of the latest consume.           *)
(***************************************************************************)
NoHist == [win |-> -1, admitted |-> 0, calls |-> 0, ones |-> TRUE,
           phase |-> "idle", t0 |-> 0, n |-> 0, expect |-> "none"]

\* (the admitted weight is counted up to limit + 2)
AdmitHist(h, t, dec) ==
    LET admitted == (IF h.win = WindowStart(t) THEN h.admitted ELSE 0)
                    + dec.consumed
    IN  [h EXCEPT
           !.win = WindowStart(t),
           !.admitted = IF admitted > limit + 2 THEN limit + 2 ELSE admitted]

WindowHist(h, weight, t, dec) ==
    LET same == h.win = WindowStart(t)
        calls == (IF same THEN h.calls ELSE 0) + 1
    IN  [AdmitHist(h, t, dec) EXCEPT
           !.calls = IF calls > limit + 2 THEN limit + 2 ELSE calls,
           !.ones = (IF same THEN h.ones ELSE TRUE) /\ weight = 1]

BurstHist(h, fresh, weight, t) ==
    IF weight # 1
    THEN [h EXCEPT !.phase = "idle", !.t0 = 0, !.n = 0, !.expect = "none"]
    ELSE IF fresh
    THEN [h EXCEPT !.phase = IF limit = 1 THEN "empty" ELSE "burst",
                   !.t0 = t, !.n = 1, !.expect = "admit"]
    ELSE IF h.phase = "burst" /\ t = h.t0
    THEN [h EXCEPT !.phase = IF h.n + 1 = limit THEN "empty" ELSE "burst",
                   !.n = h.n + 1, !.expect = "admit"]
    ELSE IF h.phase = "empty" /\ (t - h.t0) * limit < windowMs
    THEN [h EXCEPT !.expect = "reject"]
    ELSE IF h.phase = "empty" /\ (t - h.t0) * limit = windowMs
    THEN [h EXCEPT !.phase = "refilled", !.t0 = t, !.expect = "admit"]
    ELSE IF h.phase = "refilled" /\ t = h.t0
    THEN [h EXCEPT !.expect = "reject"]
    ELSE [h EXCEPT !.phase = "idle", !.t0 = 0, !.n = 0, !.expect = "none"]

(***************************************************************************)
(* The limiter is built once (flameLimit(options)) and then called, one    *)
(* call at a time; the clock moves between calls, and the memory store's   *)
(* sweep timer fires between calls.                                        *)
(***************************************************************************)
Init ==
    /\ \E c \in Configs : strategy = c[1] /\ limit = c[2] /\ windowMs = c[3]
    /\ backend \in Backends
    /\ weightByPath = FALSE
    /\ weights = <<>>
    /\ redisClient = TRUE
    /\ built = "middleware"
    /\ now = 0
    /\ store = <<>>
    /\ flight = NoFlight
    /\ last = NoOp
    /\ hist = [id \in Identities |-> NoHist]

\* afterReset: the call before this one was resetKey of the same identity
Called(id, weight, dec) ==
    [op |-> "consume", id |-> id, weight |-> weight, at |-> now,
     dec |-> dec, before |-> store,
     afterReset |-> (last.op = "resetKey" /\ last.id = id)]

\* what last is once the clock moved or the sweep ran: no call was made, so
\* a resetKey stays the latest call
Idle(l) == IF l.op = "resetKey" THEN l ELSE NoOp

ConsumeFixed(id, weight) ==
    /\ strategy = "fixed"
    /\ \E res \in {FixedConsume(store, id, weight, now)} :
          /\ store' = res.store
          /\ last' = Called(id, weight, res.dec)
          /\ hist' = [hist EXCEPT
                        ![id] = WindowHist(hist[id], weight, now, res.dec)]
    /\ UNCHANGED <<config, flight, now>>

ConsumeSliding(id, weight) ==
    /\ strategy = "sliding"
    /\ \E res \in {SlidingConsume(store, id, weight, now)} :
          /\ store' = res.store
          /\ last' = Called(id, weight, res.dec)
          /\ hist' = [hist EXCEPT ![id] = AdmitHist(hist[id], now, res.dec)]
    /\ UNCHANGED <<config, flight, now>>

ConsumeToken(id, weight) ==
    /\ strategy = "token"
    /\ \E res \in {TokenConsume(store, id, weight, now)} :
          /\ store' = res.store
          /\ last' = Called(id, weight, res.dec)
          /\ hist' = [hist EXCEPT
                        ![id] = BurstHist(hist[id],
                                          StoreGet(store, TokenKey(id), now)
                                              = Absent,
                                          weight, now)]
    /\ UNCHANGED <<config, flight, now>>

\* the clock moves on; the Redis server drops the keys whose time is up
Tick(d) ==
    /\ now + d <= MaxTime
    /\ now' = now + d
    /\ store' = IF backend = "redis" THEN RedisExpire(store, now + d)
                ELSE store
    /\ last' = Idle(last)
    /\ UNCHANGED <<config, flight, hist>>

\* the memory store's sweep timer fires
Gc ==
    /\ backend = "memory"
    /\ MemoryGc(store, now) # store
    /\ store' = MemoryGc(store, now)
    /\ last' = Idle(last)
    /\ UNCHANGED <<config, flight, now, hist>>

Next ==
    \/ \E id \in Identities, weight \in Weights : ConsumeFixed(id, weight)
    \/ \E id \in Identities, weight \in Weights : ConsumeSliding(id, weight)
    \/ \E id \in Identities, weight \in Weights : ConsumeToken(id, weight)
    \/ \E d \in 1..MaxStep : Tick(d)
    \/ Gc

Spec == Init /\ [][Next]_vars

(***************************************************************************)
(* The properties.  last is the latest call with the Decision it returned  *)
(* and the store it found; it is NoOp after the clock moved or the sweep   *)
(* ran.                                                                    *)
(***************************************************************************)
IsConsume == last.op = "consume"

\* the value held under a prefixed key
Held(st, k) == IF backend = "memory" THEN st[k] ELSE JsonParse(st[k].text)

\* the time a held entry lapses at
LapsesAt(st, k) == IF backend = "memory" THEN st[k].expireAt ELSE st[k].exp

\* the count the latest call found in the identity's record of a window
CountBefore(windowStart) ==
    LET got == StoreGet(last.before, WindowKey(last.id, windowStart), last.at)
    IN  IF got = Absent THEN 0 ELSE got.count

\* C1: for every consume of every strategy, a Decision with limited = true
\* has consumed = 0 and a Decision with limited = false has
\* consumed = weight.
C1_ConsumedMatchesLimited ==
    IsConsume =>
        last.dec.consumed = (IF last.dec.limited THEN 0 ELSE last.weight)

C1_Witness ==
    /\ IsConsume
    /\ strategy = "token"
    /\ last.weight = 2
    /\ last.dec.limited
    /\ last.dec.consumed = 0

\* C2: with calls one after the other, every stored fixed-window or
\* sliding-window record has count <= limit and the weight admitted for an
\* identity inside one aligned window is <= limit; every stored token
\* bucket has 0 <= tokens <= limit.
C2_WithinLimit ==
    /\ strategy \in {"fixed", "sliding"} =>
          /\ \A k \in DOMAIN store : Held(store, k).count <= limit
          /\ \A id \in Identities : hist[id].admitted <= limit
    /\ strategy = "token" =>
          \A k \in DOMAIN store :
              /\ ~DblIsNeg(Held(store, k).tokens)
              /\ DblCmp(Held(store, k).tokens, DblFromInt(limit)) <= 0

C2_Witness ==
    /\ IsConsume
    /\ strategy = "sliding"
    /\ last.dec.limited
    /\ hist[last.id].admitted = limit
    /\ CountBefore(WindowStart(last.at)) = limit

\* C3: a fixed-window or sliding-window consume that returns limited = true
\* leaves the store exactly as it found it: no key created, no count
\* changed, no expiry renewed.
C3_RejectedLeavesStore ==
    (IsConsume /\ strategy \in {"fixed", "sliding"} /\ last.dec.limited) =>
        store = last.before

C3_Witness ==
    /\ IsConsume
    /\ strategy = "sliding"
    /\ last.dec.limited
    /\ last.before # <<>>
    /\ (KeyPrefix \o WindowKey(last.id, WindowStart(last.at)))
           \notin DOMAIN store

\* C4: fixed window, one identity, weight-1 consumes inside one aligned
\* window: the first limit of them are admitted, the next is rejected with
\* remaining = 0, and the first one of a window is admitted against a fresh
\* record (stored count 1, remaining = limit - 1) whatever the earlier
\* windows saw.
C4_FixedWindowRun ==
    (IsConsume /\ strategy = "fixed" /\ hist[last.id].ones) =>
        LET n == hist[last.id].calls
            k == KeyPrefix \o WindowKey(last.id, WindowStart(last.at))
        IN  /\ n <= limit => ~last.dec.limited
            /\ n = limit + 1 =>
                   last.dec.limited /\ last.dec.remaining = 0
            /\ n = 1 =>
                   /\ k \in DOMAIN store
                   /\ Held(store, k).count = 1
                   /\ last.dec.remaining = limit - 1

C4_Witness ==
    /\ IsConsume
    /\ strategy = "fixed"
    /\ hist[last.id].ones
    /\ hist[last.id].calls = 1
    /\ CountBefore(WindowStart(last.at) - windowMs) = limit
    /\ ~last.dec.limited

\* C5: a rejected fixed-window consume reports remaining =
\* max(0, limit - record.count), the quota that was available before the
\* rejected request (count 3, limit 5, weight 5 reports 2).
C5_RejectedRemaining ==
    (IsConsume /\ strategy = "fixed" /\ last.dec.limited) =>
        last.dec.remaining
            = NatMax(0, limit - CountBefore(WindowStart(last.at)))

\* C6: a sliding-window consume at time now is admitted if and only if
\* current.count + weight
\*     + floor(previous.count * (1 - (now - currentWindow) / windowMs))
\* <= limit, absent records counting as 0.
C6_SlidingAdmission ==
    (IsConsume /\ strategy = "sliding") =>
        LET currentWindow == WindowStart(last.at)
            timeElapsed == last.at - currentWindow
            weighted == (CountBefore(currentWindow - windowMs)
                             * (windowMs - timeElapsed)) \div windowMs
        IN  ~last.dec.limited
                <=> CountBefore(currentWindow) + last.weight + weighted
                        <= limit

\* C7: no sliding-window consume, admitted or rejected, writes, deletes or
\* renews the previous window's record; an admitted consume changes only
\* the current window's record.
C7_PreviousUntouched ==
    (IsConsume /\ strategy = "sliding") =>
        LET cur == KeyPrefix \o WindowKey(last.id, WindowStart(last.at))
            prev == KeyPrefix
                        \o WindowKey(last.id, WindowStart(last.at) - windowMs)
            Same(k) == /\ k \in DOMAIN store <=> k \in DOMAIN last.before
                       /\ k \in DOMAIN store => store[k] = last.before[k]
        IN  /\ Same(prev)
            /\ \A k \in (DOMAIN store \cup DOMAIN last.before) \ {cur} :
                   Same(k)

C7_Witness ==
    /\ IsConsume
    /\ strategy = "sliding"
    /\ ~last.dec.limited
    /\ CountBefore(WindowStart(last.at) - windowMs) > 0
    /\ CountBefore(WindowStart(last.at)) > 0

\* C8: token bucket, one identity, weight-1 consumes: a fresh identity
\* admits the consumes of one instant until limit are admitted, the next is
\* rejected, every further one is rejected until windowMs / limit ms after
\* the bucket ran empty, and at that moment exactly one more is admitted.
C8_TokenBurst ==
    (IsConsume /\ strategy = "token" /\ hist[last.id].expect # "none") =>
        (last.dec.limited <=> hist[last.id].expect = "reject")

\* C9: after a token-bucket consume at time now that returns
\* limited = true, the stored bucket has lastRefill = now and tokens =
\* min(limit, oldTokens + (now - oldLastRefill) * limit / windowMs),
\* written through store.set with TTL 2 * windowMs, under either store.
C9_RefillPersisted ==
    (/\ IsConsume
     /\ strategy = "token"
     /\ last.dec.limited
     /\ StoreGet(last.before, TokenKey(last.id), last.at) # Absent) =>
        LET storeKey == TokenKey(last.id)
            k == KeyPrefix \o storeKey
            old == StoreGet(last.before, storeKey, last.at)
            tokens == DblMin(DblFromInt(limit),
                             DblAdd(old.tokens,
                                    DblMul(DblFromInt(last.at - old.lastRefill),
                                           RefillRate)))
        IN  /\ k \in DOMAIN store
            /\ Held(store, k).lastRefill = last.at
            /\ Held(store, k).tokens = tokens
            /\ LapsesAt(store, k)
                   = LapsesAt(StoreSet(<<>>, storeKey, Held(store, k),
                                       windowMs * 2, last.at), k)

\* C10: the resetTime of every Decision is not in the past
\* (resetTime >= now), and neither is the resetTime stored in a record that
\* is still live.
C10_ResetNotPast ==
    /\ IsConsume => last.dec.resetTime >= last.at
    /\ \A k \in DOMAIN store :
           LapsesAt(store, k) > now => Held(store, k).resetTime >= now

\* the keys a strategy may hold an entry under, for an identity
KeysOf(id) == {TokenKey(id)} \cup {WindowKey(id, w) : w \in 0..MaxTime}

\* C11: with the memory store, once ttl ms have passed since the last set
\* of a key, get(key) answers absent, whether or not the sweep has run since.
C11_ExpiredReadsAbsent ==
    backend = "memory" =>
        \A id \in Identities : \A key \in KeysOf(id) :
            (/\ (KeyPrefix \o key) \in DOMAIN store
             /\ LapsesAt(store, KeyPrefix \o key) <= now) =>
                MemoryGet(store, key) = Absent

(***************************************************************************)
(* The store contract on its own: set and get called directly on either    *)
(* store, the clock moving and the sweep running in between.  hist holds,  *)
(* per key, the latest set; last holds the latest get and its answer.      *)
(***************************************************************************)
StoreKeys == {"a:0", "a:token"}

StoreValues == {[count |-> 1, resetTime |-> 4], [count |-> 2, resetTime |-> 4]}

StoreTtls == {2, 3}

NoSet == [set |-> FALSE]

InitStore ==
    /\ strategy = "fixed" /\ limit = 2 /\ windowMs = 4
    /\ backend \in Backends
    /\ weightByPath = FALSE
    /\ weights = <<>>
    /\ redisClient = TRUE
    /\ built = "middleware"
    /\ now = 0
    /\ store = <<>>
    /\ flight = NoFlight
    /\ last = NoOp
    /\ hist = [key \in StoreKeys |-> NoSet]

\* store.set(key, value, ttl)
SetCall(key, value, ttl) ==
    /\ store' = StoreSet(store, key, value, ttl, now)
    /\ hist' = [hist EXCEPT ![key] = [set |-> TRUE, value |-> value,
                                      ttl |-> ttl, at |-> now]]
    /\ last' = NoOp
    /\ UNCHANGED <<config, flight, now>>

\* store.get(key)
GetCall(key) ==
    /\ last' = [op |-> "get", key |-> key, got |-> StoreGet(store, key, now)]
    /\ UNCHANGED <<config, flight, now, store, hist>>

NextStore ==
    \/ \E key \in StoreKeys, value \in StoreValues, ttl \in StoreTtls :
           SetCall(key, value, ttl)
    \/ \E key \in StoreKeys : GetCall(key)
    \/ \E d \in 1..MaxStep : Tick(d)
    \/ Gc

SpecStore == InitStore /\ [][NextStore]_vars

\* C12: for both stores, a get of a key before the ttl of its latest set has
\* passed answers a value equal to the value that set was given: the same
\* fields, none added; a later set of the key replaces the value and the
\* expiry.
C12_RoundTrip ==
    (/\ last.op = "get"
     /\ hist[last.key].set
     /\ now < hist[last.key].at + hist[last.key].ttl) =>
        last.got = hist[last.key].value

(***************************************************************************)
(* resetKey: each strategy deletes the identity's entries it would read    *)
(* now.  The limiter with resetKey among its calls.                        *)
(***************************************************************************)
\* store.del(key), either store
StoreDel(st, key) == Drop(st, {KeyPrefix \o key})

FixedResetKey(st, key, t) == StoreDel(st, WindowKey(key, WindowStart(t)))

\* a resetKey that forgets the previous window's record
SlidingResetKeyCurrent(st, key, t) ==
    StoreDel(st, WindowKey(key, WindowStart(t)))

SlidingResetKey(st, key, t) ==
    StoreDel(StoreDel(st, WindowKey(key, WindowStart(t))),
             WindowKey(key, WindowStart(t) - windowMs))

TokenResetKey(st, key) == StoreDel(st, TokenKey(key))

\* limiter.resetKey(key)
ResetKey(id) ==
    /\ store' = CASE strategy = "fixed" -> FixedResetKey(store, id, now)
                  [] strategy = "sliding" -> SlidingResetKey(store, id, now)
                  [] strategy = "token" -> TokenResetKey(store, id)
    /\ last' = [NoOp EXCEPT !.op = "resetKey", !.id = id]
    /\ UNCHANGED <<config, flight, now, hist>>

NextReset ==
    \/ Next
    \/ \E id \in Identities : ResetKey(id)

SpecReset == Init /\ [][NextReset]_vars

\* C13: for every strategy and whatever the identity's state (current
\* window exhausted, previous window exhausted, bucket empty),
\* resetKey(identity) followed by consume(identity, 1) with no other call
\* in between returns limited = false.
C13_ResetAdmits ==
    (IsConsume /\ last.afterReset /\ last.weight = 1) => ~last.dec.limited

C13_Witness ==
    /\ IsConsume
    /\ strategy = "sliding"
    /\ last.afterReset
    /\ last.weight = 1
    /\ ~last.dec.limited
    /\ hist[last.id].admitted = limit + 1

(***************************************************************************)
(* getPathWeight.  A path and a pattern are sequences of characters.       *)
(* options.weights is an object: Object.entries lists its keys that are    *)
(* array indices ("0", "7", "12") first, in ascending numeric order, and   *)
(* then the other keys in the order they were declared.  A pattern that    *)
(* is neither the path nor *-suffixed goes to new RegExp(pattern); the     *)
(* patterns here use literals, ".", "*" and "(", so a "(" (never closed)   *)
(* and a "*" with nothing to repeat make RegExp throw.                     *)
(***************************************************************************)
MaxPatLen == 2

MaxPathLen == 3

MaxRules == 2

DefaultWeight == 1

PatChars == {"/", "a", "1", "*", "(", "."}

PathChars == {"/", "a", "1"}

Digits == {"0", "1", "2", "3", "4", "5", "6", "7", "8", "9"}

RuleWeights == {2, 5}

Patterns == UNION {[1..n -> PatChars] : n \in 1..MaxPatLen}

Paths == {p \in UNION {[1..n -> PathChars] : n \in 1..MaxPathLen} : p[1] = "/"}

\* the declared rule lists: an object holds a key once
RuleLists ==
    {r \in UNION {[1..n -> [pattern : Patterns, weight : RuleWeights]] : n \in 0..MaxRules} : \A i, j \in DOMAIN r : r[i].pattern = r[j].pattern => i = j}

DigitValue(c) == CHOOSE v \in 0..9 : ToString(v) = c

\* the key is an array index: decimal digits, no leading zero
IsIndexKey(key) ==
    /\ \A i \in DOMAIN key : key[i] \in Digits
    /\ Len(key) = 1 \/ key[1] # "0"

RECURSIVE IndexValue(_)
IndexValue(key) ==
    IF key = <<>> THEN 0
    ELSE 10 * IndexValue(SubSeq(key, 1, Len(key) - 1))
             + DigitValue(key[Len(key)])

\* Object.entries(config.weights)
ObjectEntries(decl) ==
    LET index == {i \in DOMAIN decl : IsIndexKey(decl[i].pattern)}
        Rank(i) ==
            IF i \in index
            THEN 1 + Cardinality({j \in index :
                        IndexValue(decl[j].pattern)
                            < IndexValue(decl[i].pattern)})
            ELSE 1 + Cardinality(index)
                   + Cardinality({j \in DOMAIN decl \ index : j < i})
    IN  [r \in DOMAIN decl |-> decl[CHOOSE i \in DOMAIN decl : Rank(i) = r]]

\* path.startsWith(prefix)
StartsWith(path, prefix) ==
    /\ Len(prefix) <= Len(path)
    /\ SubSeq(path, 1, Len(prefix)) = prefix

\* new RegExp(pattern) does not throw
RegexValid(pattern) ==
    \A i \in DOMAIN pattern :
        /\ pattern[i] # "("
        /\ pattern[i] = "*" => (i > 1 /\ pattern[i - 1] # "*")

\* the pattern from position i on matches the path from position j on
RECURSIVE RegexMatchHere(_, _, _, _)
RegexMatchHere(pattern, i, path, j) ==
    IF i > Len(pattern) THEN TRUE
    ELSE IF i < Len(pattern) /\ pattern[i + 1] = "*"
    THEN \/ RegexMatchHere(pattern, i + 2, path, j)
         \/ /\ j <= Len(path)
            /\ pattern[i] \in {".", path[j]}
            /\ RegexMatchHere(pattern, i, path, j + 1)
    ELSE /\ j <= Len(path)
         /\ pattern[i] \in {".", path[j]}
         /\ RegexMatchHere(pattern, i + 1, path, j + 1)

\* new RegExp(pattern).test(path): a match anywhere in the path
RegexTest(pattern, path) ==
    \E j \in 1..(Len(path) + 1) : RegexMatchHere(pattern, 1, path, j)

PatternMatches(pattern, path) ==
    IF pattern = path THEN TRUE
    ELSE IF pattern[Len(pattern)] = "*"
    THEN StartsWith(path, SubSeq(pattern, 1, Len(pattern) - 1))
    ELSE IF RegexValid(pattern) THEN RegexTest(pattern, path)
    ELSE FALSE

\* the weight of the first entry whose pattern matches, or 1
FirstMatch(entries, path) ==
    LET hits == {i \in DOMAIN entries :
                    PatternMatches(entries[i].pattern, path)}
    IN  IF hits = {} THEN DefaultWeight ELSE entries[SetMin(hits)].weight

GetPathWeight(path) ==
    IF ~weightByPath THEN DefaultWeight
    ELSE FirstMatch(ObjectEntries(weights), path)

InitWeights ==
    /\ strategy = "fixed" /\ limit = 2 /\ windowMs = 4
    /\ backend = "memory"
    /\ weightByPath \in BOOLEAN
    /\ weights \in RuleLists
    /\ redisClient = TRUE
    /\ built = "middleware"
    /\ now = 0
    /\ store = <<>>
    /\ flight = NoFlight
    /\ last = NoOp
    /\ hist = [id \in Identities |-> NoHist]

\* const weight = getPathWeight(path)
Resolve(path) ==
    /\ last' = [op |-> "weight", path |-> path, weight |-> GetPathWeight(path)]
    /\ UNCHANGED <<config, flight, now, store, hist>>

NextWeights == \E path \in Paths : Resolve(path)

SpecWeights == InitWeights /\ [][NextWeights]_vars

\* the rule at place i of a list matches the path, in the words of C14:
\* the pattern is the path, or it ends in * and the path starts with what
\* precedes the *, or else it is a regular expression that tests true
\* (a malformed one never does)
RuleMatches(rules, i, path) ==
    LET pattern == rules[i].pattern
    IN  \/ pattern = path
        \/ /\ pattern[Len(pattern)] = "*"
           /\ StartsWith(path, SubSeq(pattern, 1, Len(pattern) - 1))
        \/ /\ pattern[Len(pattern)] # "*"
           /\ RegexValid(pattern)
           /\ RegexTest(pattern, path)

\* C14: the weight of a path is the weight of the first rule, in the order
\* the rules were declared, whose pattern matches the path; it is 1 when no
\* rule matches or weighting is off.
C14_FirstDeclaredMatch ==
    last.op = "weight" =>
        LET hits == {i \in DOMAIN weights : RuleMatches(weights, i, last.path)}
        IN  last.weight = IF ~weightByPath \/ hits = {} THEN 1
                          ELSE weights[SetMin(hits)].weight

\* C15: when a rule whose pattern is the path and a wildcard rule both
\* match the path, the path gets the weight of the exact rule, whichever
\* of the two was declared first.
C15_ExactBeatsWildcard ==
    (last.op = "weight" /\ weightByPath) =>
        \A i, j \in DOMAIN weights :
            (/\ weights[i].pattern = last.path
             /\ weights[j].pattern[Len(weights[j].pattern)] = "*"
             /\ PatternMatches(weights[j].pattern, last.path)) =>
                last.weight = weights[i].weight

(***************************************************************************)
(* flameLimit(options): the store is looked up and constructed, then the   *)
(* strategy is looked up.  The limiter from its construction on: requests  *)
(* are served by the middleware that flameLimit returned, if it did.       *)
(***************************************************************************)
Strategies == {"fixed", "sliding", "token"}

\* names a caller may pass
BackendNames == Backends \cup {"disk"}

StrategyNames == Strategies \cup {"leaky"}

\* a flameLimit that leaves the strategy lookup to the first request
FlameLimitLazy(backendName, strategyName, client) ==
    IF backendName \notin Backends THEN "Unknown backend"
    ELSE IF backendName = "redis" /\ ~client
    THEN "Redis client is required for RedisStore"
    ELSE "middleware"

\* what flameLimit returns or throws
FlameLimit(backendName, strategyName, client) ==
    IF backendName \notin Backends THEN "Unknown backend"
    ELSE IF backendName = "redis" /\ ~client
    THEN "Redis client is required for RedisStore"
    ELSE IF strategyName \notin Strategies THEN "Unknown strategy"
    ELSE "middleware"

\* the configuration error a request would run into, if any
ConfigError ==
    IF backend \notin Backends THEN "Unknown backend"
    ELSE IF backend = "redis" /\ ~redisClient
    THEN "Redis client is required for RedisStore"
    ELSE IF strategy \notin Strategies THEN "Unknown strategy"
    ELSE "none"

InitBuild ==
    /\ strategy \in StrategyNames /\ limit = 2 /\ windowMs = 4
    /\ backend \in BackendNames
    /\ weightByPath = FALSE
    /\ weights = <<>>
    /\ redisClient \in BOOLEAN
    /\ built = "pending"
    /\ now = 0
    /\ store = <<>>
    /\ flight = NoFlight
    /\ last = NoOp
    /\ hist = [id \in Identities |-> NoHist]

\* const limiter = flameLimit(options)
Construct ==
    /\ built = "pending"
    /\ built' = FlameLimit(backend, strategy, redisClient)
    /\ last' = [NoOp EXCEPT !.op = "flameLimit"]
    /\ UNCHANGED <<strategy, backend, limit, windowMs, weightByPath, weights, redisClient, flight, now, store, hist>>

\* limiter(req, res, next): a request that cannot be served for the way the
\* limiter is configured fails with that error
Request(id, weight) ==
    /\ built = "middleware"
    /\ IF ConfigError # "none"
       THEN /\ last' = [NoOp EXCEPT !.op = "error", !.id = id,
                                     !.weight = weight]
            /\ UNCHANGED <<config, flight, now, store, hist>>
       ELSE \/ ConsumeFixed(id, weight)
            \/ ConsumeSliding(id, weight)
            \/ ConsumeToken(id, weight)

NextBuild ==
    \/ Construct
    \/ \E id \in Identities, weight \in Weights : Request(id, weight)
    \/ \E d \in 1..MaxStep : Tick(d)

SpecBuild == InitBuild /\ [][NextBuild]_vars

Faults == {"none", "get", "set"}

\* strategy.consume(identifier, weight)
StrategyConsume(st, key, weight, t) ==
    CASE strategy = "fixed" -> FixedConsume(st, key, weight, t)
      [] strategy = "sliding" -> SlidingConsume(st, key, weight, t)
      [] strategy = "token" -> TokenConsume(st, key, weight, t)

\* what the consume comes to when the named operation fails: res is what it
\* comes to when none does
WithFault(fault, st, res) ==
    IF fault = "get" THEN Thrown(st)
    ELSE IF fault = "set" /\ ~res.dec.limited THEN Thrown(st)
    ELSE res

\* a middleware that lets the request through when the consume threw
OutcomeFailOpen(dec, hasNext) ==
    IF dec.limited THEN "429"
    ELSE IF hasNext THEN "next()" ELSE "true"

\* what the middleware does with the result of the consume
Outcome(dec, hasNext) ==
    IF IsFailure(dec) THEN IF hasNext THEN "next(error)" ELSE "throw"
    ELSE IF dec.limited THEN "429"
    ELSE IF hasNext THEN "next()" ELSE "true"

\* limiter(req, res, next), with the store operation that fails during it;
\* outcome is what the middleware does, for a caller that gave a next and
\* for one that gave none
RequestUnder(id, weight, fault) ==
    /\ fault # "none" => backend = "redis"
    /\ \E res \in {WithFault(fault, store,
                             StrategyConsume(store, id, weight, now))} :
          /\ store' = res.store
          /\ last' = [op |-> "request", id |-> id, weight |-> weight,
                      at |-> now, dec |-> res.dec, before |-> store,
                      fault |-> fault, failed |-> IsFailure(res.dec),
                      outcome |-> [hasNext \in BOOLEAN |->
                                      Outcome(res.dec, hasNext)]]
    /\ UNCHANGED <<config, flight, now, hist>>

\* <<strategy, limit, windowMs>>
FaultConfigs == {<<"fixed", 2, 4>>, <<"sliding", 2, 4>>, <<"token", 2, 4>>}

InitFault ==
    /\ \E c \in FaultConfigs :
          strategy = c[1] /\ limit = c[2] /\ windowMs = c[3]
    /\ backend \in Backends
    /\ weightByPath = FALSE
    /\ weights = <<>>
    /\ redisClient = TRUE
    /\ built = "middleware"
    /\ now = 0
    /\ store = <<>>
    /\ flight = NoFlight
    /\ last = NoOp
    /\ hist = [id \in Identities |-> NoHist]

NextFault ==
    \/ \E id \in Identities, weight \in Weights, fault \in Faults : RequestUnder(id, weight, fault)
    \/ \E d \in 1..MaxStep : Tick(d)

SpecFault == InitFault /\ [][NextFault]_vars

\* C17: when a store operation fails during a request's consume, the
\* middleware hands the failure to its caller (next(error), or it throws
\* when there is no next): the request is neither admitted nor answered
\* with the 429, and the store is as the request found it.  A failing get
\* fails every request; a failing set spares only the requests that are
\* rejected, which never call set.
C17_FailureSurfaced ==
    last.op = "request" =>
        /\ last.failed =>
              /\ last.outcome[TRUE] = "next(error)"
              /\ last.outcome[FALSE] = "throw"
              /\ store = last.before
        /\ last.fault = "get" => last.failed
        /\ (last.fault = "set" /\ ~last.failed) =>
              \A hasNext \in BOOLEAN : last.outcome[hasNext] = "429"

C17_Witness ==
    /\ last.op = "request"
    /\ strategy = "sliding"
    /\ last.fault = "set"
    /\ last.failed
    /\ last.outcome[TRUE] = "next(error)"
    /\ last.before # <<>>

(***************************************************************************)
(* Calls in flight together.  consume is an async function: it runs up to  *)
(* its await of store.get, and from there up to its await of store.set,    *)
(* without another call's code in between; the bodies of MemoryStore.get   *)
(* and MemoryStore.set run inside those two pieces.  get hands out the     *)
(* Map's object itself, so the model keeps the objects apart from the Map: *)
(* flight.heap holds the objects (an object is named after the call that   *)
(* created it), flight.map says which object the Map holds under a key,    *)
(* flight.calls lists the calls begun, each with the object its get        *)
(* answered (0: undefined) and the events it began and decided at.  store  *)
(* is what the Map shows: each key with its object's fields.  The calls    *)
(* are made within one clock reading: calls of different windows use       *)
(* different keys and do not meet.                                         *)
(***************************************************************************)
MaxCalls == 3

MapView(f) == [k \in DOMAIN f.map |-> f.heap[f.map[k]]]

InitOverlap ==
    /\ strategy = "fixed" /\ limit = 2 /\ windowMs = 4
    /\ backend = "memory"
    /\ weightByPath = FALSE
    /\ weights = <<>>
    /\ redisClient = TRUE
    /\ built = "middleware"
    /\ now = 0
    /\ store = <<>>
    /\ flight = NoFlight
    /\ last = NoOp
    /\ hist = [id \in Identities |-> NoHist]

\* consume up to `await this.store.get(storeKey)`
Begin(id, weight) ==
    /\ Len(flight.calls) < MaxCalls
    /\ LET storeKey == WindowKey(id, WindowStart(now))
           prefixedKey == KeyPrefix \o storeKey
           call == [id |-> id, weight |-> weight, at |-> now,
                    storeKey |-> storeKey,
                    got |-> IF prefixedKey \in DOMAIN flight.map
                            THEN flight.map[prefixedKey] ELSE 0,
                    pc |-> "got", began |-> flight.events + 1,
                    decided |-> 0, dec |-> NoDecision]
       IN  flight' = [flight EXCEPT !.calls = Append(@, call),
                                    !.events = @ + 1]
    /\ last' = NoOp
    /\ UNCHANGED <<config, now, store, hist>>

\* the call with its Decision
Decided(call, record, newCount, limited, event) ==
    [call EXCEPT
       !.pc = "done",
       !.decided = event,
       !.dec = [limited |-> limited,
                remaining |-> NatMax(0, limit - newCount),
                resetTime |-> record.resetTime,
                consumed |-> Consumed(limited, call.weight)]]

\* the objects and the Map after `record.count = newCount` and
\* store.set(storeKey, record, windowMs) on the object named obj
Written(f, c, obj, record, newCount, limited) ==
    IF limited THEN f
    ELSE [f EXCEPT
            !.heap = Put(@, obj, [count |-> newCount,
                                  resetTime |-> record.resetTime,
                                  expireAt |-> now + windowMs]),
            !.map = Put(@, KeyPrefix \o f.calls[c].storeKey, obj)]

\* consume from the answer of store.get up to `await this.store.set(...)`
Decide(c) ==
    /\ c \in DOMAIN flight.calls
    /\ flight.calls[c].pc = "got"
    /\ LET call == flight.calls[c]
           obj == IF call.got = 0 THEN c ELSE call.got
           record == IF call.got = 0
                     THEN [count |-> 0,
                           resetTime |-> WindowStart(call.at) + windowMs]
                     ELSE flight.heap[call.got]
           newCount == record.count + call.weight
           limited == OverLimit(newCount)
           after == Written(flight, c, obj, record, newCount, limited)
       IN  /\ flight' = [after EXCEPT
                           !.calls[c] = Decided(call, record, newCount,
                                                limited, flight.events + 1),
                           !.events = @ + 1]
           /\ store' = MapView(after)
    /\ last' = NoOp
    /\ UNCHANGED <<config, now, hist>>

NextOverlap ==
    \/ \E id \in Identities, weight \in Weights : Begin(id, weight)
    \/ \E c \in 1..MaxCalls : Decide(c)

SpecOverlap == InitOverlap /\ [][NextOverlap]_vars

\* two calls were in flight together: each began before the other decided
Together(c, d) ==
    LET calls == flight.calls
        End(x) == IF calls[x].pc = "done" THEN calls[x].decided
                  ELSE flight.events + 1
    IN  /\ c # d
        /\ calls[c].id = calls[d].id
        /\ calls[c].began < End(d)
        /\ calls[d].began < End(c)

\* the calls chained to those of S by having been in flight together
RECURSIVE Batch(_)
Batch(S) ==
    LET T == S \cup {d \in DOMAIN flight.calls : \E c \in S : Together(c, d)}
    IN  IF T = S THEN S ELSE Batch(T)

RECURSIVE SumWeight(_)
SumWeight(S) ==
    IF S = {} THEN 0
    ELSE LET c == CHOOSE x \in S : TRUE
         IN  flight.calls[c].weight + SumWeight(S \ {c})

\* the admitted calls of an identity's window
AdmittedIn(id, windowStart) ==
    {c \in DOMAIN flight.calls :
        /\ flight.calls[c].id = id
        /\ WindowStart(flight.calls[c].at) = windowStart
        /\ flight.calls[c].pc = "done"
        /\ ~flight.calls[c].dec.limited}

\* the weight of the heaviest batch of two or more calls
HeaviestBatch ==
    SetMax({0} \cup {SumWeight(Batch({c})) :
                        c \in {x \in DOMAIN flight.calls :
                                  Batch({x}) # {x}}})

FixedKeys(key, t) == {WindowKey(key, WindowStart(t))}

SlidingKeys(key, t) ==
    {WindowKey(key, WindowStart(t)),
     WindowKey(key, WindowStart(t) - windowMs)}

TokenKeys(key) == {TokenKey(key)}

\* C19: for any identity and any times, the keys of one strategy are not
\* keys of another: fixed, sliding and token limiters that share a store
\* and a prefix never read or overwrite each other's entries.
C19_DisjointNamespaces ==
    \A id \in Identities : \A t1, t2 \in 0..MaxTime :
        /\ FixedKeys(id, t1) \cap SlidingKeys(id, t2) = {}
        /\ FixedKeys(id, t1) \cap TokenKeys(id) = {}
        /\ SlidingKeys(id, t1) \cap TokenKeys(id) = {}

(***************************************************************************)
(* The Redis server holding text that JSON.parse rejects under one of the  *)
(* limiter's keys (another writer, a truncated value).                     *)
(***************************************************************************)
Garbage == [garbage |-> TRUE]

InitCorrupt ==
    /\ \E c \in FaultConfigs :
          strategy = c[1] /\ limit = c[2] /\ windowMs = c[3]
    /\ backend = "redis"
    /\ weightByPath = FALSE
    /\ weights = <<>>
    /\ redisClient = TRUE
    /\ built = "middleware"
    /\ now = 0
    /\ store = <<>>
    /\ flight = NoFlight
    /\ last = NoOp
    /\ hist = [id \in Identities |-> NoHist]

\* the text under a key is replaced by text that does not decode
Corrupt(k) ==
    /\ k \in DOMAIN store
    /\ store[k].text # Garbage
    /\ store' = [store EXCEPT ![k].text = Garbage]
    /\ last' = Idle(last)
    /\ UNCHANGED <<config, flight, now, hist>>

NextCorrupt ==
    \/ \E id \in Identities, weight \in Weights : ConsumeFixed(id, weight)
    \/ \E id \in Identities, weight \in Weights : ConsumeSliding(id, weight)
    \/ \E id \in Identities, weight \in Weights : ConsumeToken(id, weight)
    \/ \E d \in 1..MaxStep : Tick(d)
    \/ \E k \in DOMAIN store : Corrupt(k)

SpecCorrupt == InitCorrupt /\ [][NextCorrupt]_vars

\* the keys the configured strategy reads for an identity at a time
ReadKeys(id, t) ==
    CASE strategy = "fixed" -> FixedKeys(id, t)
      [] strategy = "sliding" -> SlidingKeys(id, t)
      [] strategy = "token" -> TokenKeys(id)

\* the keys the latest consume read whose text did not decode
CorruptRead ==
    {key \in ReadKeys(last.id, last.at) :
        /\ (KeyPrefix \o key) \in DOMAIN last.before
        /\ last.before[KeyPrefix \o key].text = Garbage}

\* C20 as stated: with the Redis store, a consume that read text that does
\* not decode completes, with the Decision a fresh identity would get.
C20_CorruptAsFreshIdentity ==
    (IsConsume /\ CorruptRead # {}) =>
        /\ ~IsFailure(last.dec)
        /\ last.dec = StrategyConsume(<<>>, last.id, last.weight, last.at).dec

\* C20, amended: with the Redis store, get answers absent for a key whose
\* text does not decode, and the consume that read it completes with the
\* Decision it would return if that entry were absent; the identity's
\* other entry, if it has one, counts as it stands.
C20_CorruptAsAbsent ==
    (IsConsume /\ CorruptRead # {}) =>
        /\ \A key \in CorruptRead : RedisGet(last.before, key, last.at) = Absent
        /\ ~IsFailure(last.dec)
        /\ last.dec = StrategyConsume(Drop(last.before, {KeyPrefix \o key : key \in CorruptRead}), last.id, last.weight, last.at).dec

C20_Witness ==
    /\ IsConsume
    /\ strategy = "sliding"
    /\ CorruptRead = {WindowKey(last.id, WindowStart(last.at))}
    /\ CountBefore(WindowStart(last.at) - windowMs) = limit
    /\ last.dec.limited

(***************************************************************************)
(* One consume, step by step.  consume reads the clock, awaits store.get   *)
(* (the sliding window: two gets, one after the other), and then decides   *)
(* and calls store.set in one piece.  The clock may move and resetKey may  *)
(* run at each await.  flight.calls holds the consume under way: the       *)
(* clock reading it took and what its gets answered.  One consume is       *)
(* under way at a time, so nobody else changes the object a memory get     *)
(* handed out and its fields stand for it.  last is NoOp once the first    *)
(* get was answered, so a resetKey that is the latest call when the        *)
(* consume returns ran after that get.                                     *)
(***************************************************************************)
StepConfigs == {<<"fixed", 2, 4>>, <<"sliding", 2, 4>>}

InitSteps ==
    /\ \E c \in StepConfigs :
          strategy = c[1] /\ limit = c[2] /\ windowMs = c[3]
    /\ backend \in Backends
    /\ weightByPath = FALSE
    /\ weights = <<>>
    /\ redisClient = TRUE
    /\ built = "middleware"
    /\ now = 0
    /\ store = <<>>
    /\ flight = NoFlight
    /\ last = NoOp
    /\ hist = [id \in Identities |-> NoHist]

\* const now = Date.now(), and the keys that follow from it
ReadClock(id, weight) ==
    /\ flight.calls = <<>>
    /\ flight' = [flight EXCEPT
                    !.calls = <<[id |-> id, weight |-> weight, at |-> now,
                                 pc |-> "clock", current |-> Absent,
                                 previous |-> Absent]>>]
    /\ last' = Idle(last)
    /\ UNCHANGED <<config, now, store, hist>>

\* await this.store.get(storeKey) / get(currentKey), answered as the store
\* stands when it is served
AwaitGet ==
    /\ Len(flight.calls) = 1
    /\ flight.calls[1].pc = "clock"
    /\ LET call == flight.calls[1]
           storeKey == WindowKey(call.id, WindowStart(call.at))
       IN  flight' = [flight EXCEPT
                        !.calls[1].current = StoreGet(store, storeKey, now),
                        !.calls[1].pc = IF strategy = "sliding"
                                        THEN "current" ELSE "got"]
    /\ last' = NoOp
    /\ UNCHANGED <<config, now, store, hist>>

\* await this.store.get(previousKey)
AwaitGetPrevious ==
    /\ Len(flight.calls) = 1
    /\ flight.calls[1].pc = "current"
    /\ LET call == flight.calls[1]
           previousKey == WindowKey(call.id,
                                    WindowStart(call.at) - windowMs)
       IN  flight' = [flight EXCEPT
                        !.calls[1].previous = StoreGet(store, previousKey,
                                                       now),
                        !.calls[1].pc = "got"]
    /\ last' = Idle(last)
    /\ UNCHANGED <<config, now, store, hist>>

\* FixedWindowStrategy.consume from the answer of get on: at is the clock
\* reading the call took, t the time its set is served at
FixedSettle(st, key, weight, at, got, t) ==
    LET windowStart == WindowStart(at)
        windowEnd == windowStart + windowMs
        storeKey == WindowKey(key, windowStart)
        record == IF got = Absent
                  THEN [count |-> 0, resetTime |-> windowEnd]
                  ELSE got
        newCount == record.count + weight
        remaining == NatMax(0, limit - newCount)
        limited == OverLimit(newCount)
    IN  [store |-> Commit(st, storeKey, record, newCount, limited,
                          windowMs, t),
         dec |-> [limited |-> limited,
                  remaining |-> remaining,
                  resetTime |-> record.resetTime,
                  consumed |-> Consumed(limited, weight)]]

\* SlidingWindowStrategy.consume from the answers of its gets on
SlidingSettle(st, key, weight, at, gotCurrent, previousRecord, t) ==
    LET currentWindow == WindowStart(at)
        currentKey == WindowKey(key, currentWindow)
        currentRecord == IF gotCurrent = Absent
                         THEN [count |-> 0,
                               resetTime |-> currentWindow + windowMs]
                         ELSE gotCurrent
        previousCount == IF previousRecord = Absent THEN 0
                         ELSE previousRecord.count
        timeElapsed == at - currentWindow
    IN  SlidingDecide(st, currentKey, currentRecord, weight, t,
                      EffectivePreviousCount(previousCount, timeElapsed))

\* the rest of consume: the Decision, and store.set if it admits
Settle ==
    /\ Len(flight.calls) = 1
    /\ flight.calls[1].pc = "got"
    /\ LET call == flight.calls[1]
       IN  \E res \in {IF strategy = "fixed"
                       THEN FixedSettle(store, call.id, call.weight, call.at,
                                        call.current, now)
                       ELSE SlidingSettle(store, call.id, call.weight,
                                          call.at, call.current,
                                          call.previous, now)} :
              /\ store' = res.store
              /\ last' = [Called(call.id, call.weight, res.dec) EXCEPT
                            !.at = call.at]
    /\ flight' = [flight EXCEPT !.calls = <<>>]
    /\ UNCHANGED <<config, now, hist>>

NextSteps ==
    \/ \E id \in Identities, weight \in Weights : ReadClock(id, weight)
    \/ AwaitGet
    \/ AwaitGetPrevious
    \/ Settle
    \/ \E d \in 1..MaxStep : Tick(d)
    \/ Gc
    \/ \E id \in Identities : ResetKey(id)

SpecSteps == InitSteps /\ [][NextSteps]_vars

\* the windows that have fully elapsed at a time
ElapsedWindows(t) == {w \in 0..t : w % windowMs = 0 /\ w + windowMs <= t}

\* the record under a key changed from one store to another: it is there
\* with another count or reset time, or it is there and was not
RecordChanged(before, after, k) ==
    /\ k \in DOMAIN after
    /\ \/ k \notin DOMAIN before
       \/ Held(after, k).count # Held(before, k).count
       \/ Held(after, k).resetTime # Held(before, k).resetTime

\* C21: whatever the times a consume's clock read, its gets and its set
\* fall on, the consume leaves the record of every window that has fully
\* elapsed when it writes as it found it.
C21_ElapsedImmutable ==
    IsConsume =>
        \A id \in Identities, w \in ElapsedWindows(now) :
            ~RecordChanged(last.before, store,
                           KeyPrefix \o WindowKey(id, w))

\* C26: a resetKey of an identity that ran after a consume of that identity
\* read its record, in the window of that consume, is not undone when the
\* consume returns: the records the reset deleted come back with no more
\* than the weight this consume was admitted with.
C26_ResetNotUndone ==
    (IsConsume /\ last.afterReset /\ WindowStart(now) = WindowStart(last.at)) =>
        \A key \in ReadKeys(last.id, last.at) :
            (KeyPrefix \o key) \in DOMAIN store =>
                Held(store, KeyPrefix \o key).count <= last.dec.consumed

(***************************************************************************)
(* The token bucket called again after a rejection.  Here hist keeps, per  *)
(* identity, its latest consume and the one before it, each with the       *)
(* clock reading, the weight and the Decision's limited and resetTime;     *)
(* the clock moves and the stores drop entries in between as they do       *)
(* between any two calls.                                                  *)
(***************************************************************************)
RetryConfigs == {<<"token", 2, 4>>, <<"token", 1, 6>>}

NoCall == [at |-> -1, weight |-> 0, limited |-> FALSE, resetTime |-> 0]

InitRetry ==
    /\ \E c \in RetryConfigs :
          strategy = c[1] /\ limit = c[2] /\ windowMs = c[3]
    /\ backend \in Backends
    /\ weightByPath = FALSE
    /\ weights = <<>>
    /\ redisClient = TRUE
    /\ built = "middleware"
    /\ now = 0
    /\ store = <<>>
    /\ flight = NoFlight
    /\ last = NoOp
    /\ hist = [id \in Identities |-> [latest |-> NoCall, previous |-> NoCall]]

\* the identity's calls with one more
Recalled(h, weight, t, dec) ==
    [latest |-> [at |-> t, weight |-> weight, limited |-> dec.limited,
                 resetTime |-> dec.resetTime],
     previous |-> h.latest]

ConsumeTokenAgain(id, weight) ==
    /\ \E res \in {TokenConsume(store, id, weight, now)} :
          /\ store' = res.store
          /\ last' = Called(id, weight, res.dec)
          /\ hist' = [hist EXCEPT
                        ![id] = Recalled(hist[id], weight, now, res.dec)]
    /\ UNCHANGED <<config, flight, now>>

NextRetry ==
    \/ \E id \in Identities, weight \in Weights : ConsumeTokenAgain(id, weight)
    \/ \E d \in 1..MaxStep : Tick(d)
    \/ Gc

SpecRetry == InitRetry /\ [][NextRetry]_vars

\* the identity's latest consume repeats the one before it, which was
\* rejected, at or after the resetTime that rejection gave
RetriedAtReset(id) ==
    /\ hist[id].previous.limited
    /\ hist[id].latest.weight = hist[id].previous.weight
    /\ hist[id].latest.at >= hist[id].previous.resetTime

\* C22: token bucket, any weight >= 1: a consume rejected with resetTime r
\* and repeated at a time >= r, with no other consume of the identity in
\* between, is admitted.
C22_RetryAtResetAdmitted ==
    \A id \in Identities : RetriedAtReset(id) => ~hist[id].latest.limited

(***************************************************************************)
(* The sliding window's record of the window before the current one.       *)
(***************************************************************************)
\* the clock is in the window after the one the identity's latest consume
\* fell in, and that window had weight admitted
InNextWindow(id) ==
    /\ strategy = "sliding"
    /\ hist[id].admitted > 0
    /\ WindowStart(now) = hist[id].win + windowMs

\* C23: sliding window, either store: at every time of window N+1 the
\* store returns the record that was admitted into during window N, with
\* the weight admitted then, and a consume made in window N+1 weighs that
\* count into its effectivePreviousCount.
C23_PreviousOutlivesNextWindow ==
    /\ \A id \in Identities :
          InNextWindow(id) =>
              LET got == StoreGet(store, WindowKey(id, hist[id].win), now)
              IN  /\ got # Absent
                  /\ got.count = hist[id].admitted
                  /\ LapsesAt(store, KeyPrefix \o WindowKey(id, hist[id].win))
                         >= hist[id].win + 2 * windowMs
    /\ (IsConsume /\ strategy = "sliding") =>
          last.dec.previousCount =
              EffectivePreviousCount(
                  CountBefore(WindowStart(last.at) - windowMs),
                  last.at - WindowStart(last.at))

\* a consume at the start of window N+1, memory store, that counted the
\* record of window N, which was set at the start of window N and so
\* lapses when window N+1 ends
C23_Witness ==
    /\ IsConsume
    /\ strategy = "sliding"
    /\ backend = "memory"
    /\ CountBefore(WindowStart(last.at) - windowMs) = limit
    /\ last.dec.previousCount = limit
    /\ last.dec.limited
    /\ LapsesAt(last.before,
                KeyPrefix \o WindowKey(last.id,
                                       WindowStart(last.at) - windowMs))
           = WindowStart(last.at) + windowMs

(***************************************************************************)
(* The weight a fixed window admits over time.  Here hist keeps, per       *)
(* identity, the weight admitted at each clock reading; the calls are      *)
(* made one at a time.                                                     *)
(***************************************************************************)
BurstConfigs == {<<"fixed", 2, 4>>, <<"fixed", 1, 3>>}

NoneAdmitted == [t \in 0..MaxTime |-> 0]

InitBurst ==
    /\ \E c \in BurstConfigs :
          strategy = c[1] /\ limit = c[2] /\ windowMs = c[3]
    /\ backend \in Backends
    /\ weightByPath = FALSE
    /\ weights = <<>>
    /\ redisClient = TRUE
    /\ built = "middleware"
    /\ now = 0
    /\ store = <<>>
    /\ flight = NoFlight
    /\ last = NoOp
    /\ hist = [id \in Identities |-> NoneAdmitted]

\* the weights admitted so far with that of a Decision made at t
Admitted(h, t, dec) == [h EXCEPT ![t] = @ + dec.consumed]

ConsumeFixedAt(id, weight) ==
    /\ \E res \in {FixedConsume(store, id, weight, now)} :
          /\ store' = res.store
          /\ last' = Called(id, weight, res.dec)
          /\ hist' = [hist EXCEPT ![id] = Admitted(hist[id], now, res.dec)]
    /\ UNCHANGED <<config, flight, now>>

NextBurst ==
    \/ \E id \in Identities, weight \in Weights : ConsumeFixedAt(id, weight)
    \/ \E d \in 1..MaxStep : Tick(d)
    \/ Gc

SpecBurst == InitBurst /\ [][NextBurst]_vars

\* the weight admitted for an identity from t1 to t2, both included
RECURSIVE AdmittedFromTo(_, _, _)
AdmittedFromTo(h, t1, t2) ==
    IF t1 > t2 THEN 0 ELSE h[t1] + AdmittedFromTo(h, t1 + 1, t2)

\* C24: fixed window, calls made one at a time: the weight admitted for an
\* identity within any span of time of length windowMs or less is at most
\* 2 * limit.
C24_BurstAtMostTwiceLimit ==
    \A id \in Identities : \A t1, t2 \in 0..MaxTime :
        (t1 <= t2 /\ t2 - t1 <= windowMs) =>
            AdmittedFromTo(hist[id], t1, t2) <= 2 * limit

\* limit admitted at the last instant of a window and limit again at the
\* first instant of the next: 2 * limit within one millisecond
C24_Witness ==
    \E id \in Identities : \E t \in 1..MaxTime :
        /\ WindowStart(t) = t
        /\ hist[id][t - 1] = limit
        /\ hist[id][t] = limit
        /\ now = t

(***************************************************************************)
(* The weight a token bucket admits over time, kept as for the fixed       *)
(* window: per identity, the weight admitted at each clock reading; that   *)
(* is all that is kept of a call.                                          *)
(***************************************************************************)
RateConfigs == {<<"token", 2, 4>>, <<"token", 1, 6>>}

InitRate ==
    /\ \E c \in RateConfigs :
          strategy = c[1] /\ limit = c[2] /\ windowMs = c[3]
    /\ backend \in Backends
    /\ weightByPath = FALSE
    /\ weights = <<>>
    /\ redisClient = TRUE
    /\ built = "middleware"
    /\ now = 0
    /\ store = <<>>
    /\ flight = NoFlight
    /\ last = NoOp
    /\ hist = [id \in Identities |-> NoneAdmitted]

ConsumeTokenAt(id, weight) ==
    /\ \E res \in {TokenConsume(store, id, weight, now)} :
          /\ store' = res.store
          /\ last' = NoOp
          /\ hist' = [hist EXCEPT ![id] = Admitted(hist[id], now, res.dec)]
    /\ UNCHANGED <<config, flight, now>>

NextRate ==
    \/ \E id \in Identities, weight \in Weights : ConsumeTokenAt(id, weight)
    \/ \E d \in 1..MaxStep : Tick(d)
    \/ Gc

SpecRate == InitRate /\ [][NextRate]_vars

\* C25: token bucket, calls made one at a time: the weight admitted for an
\* identity from t1 to t2 is at most limit + (t2 - t1) * limit / windowMs
\* (here times windowMs, in whole numbers).
C25_RateBound ==
    \A id \in Identities : \A t1, t2 \in 0..MaxTime :
        t1 <= t2 =>
            AdmittedFromTo(hist[id], t1, t2) * windowMs
                <= limit * windowMs + (t2 - t1) * limit

\* a span that is used to the full: the bucket emptied at t1 and every
\* token refilled up to now admitted as well
C25_Witness ==
    \E id \in Identities : \E t1 \in 0..MaxTime :
        /\ t1 < now
        /\ hist[id][t1] = limit
        /\ AdmittedFromTo(hist[id], t1, now) * windowMs
               = limit * windowMs + (now - t1) * limit

(***************************************************************************)
(* Two limiters of one configuration, one on the memory store and one on   *)
(* the Redis store, given the same calls at the same clock readings.  A    *)
(* call goes to the memory limiter first and then to the Redis limiter:    *)
(* backend and store are the limiter whose turn it is, flight.other is     *)
(* the store of the other one, last is the call the memory limiter has     *)
(* answered and the Redis limiter has not yet.  The clock moves, the       *)
(* sweep runs and the resets are made between two calls.  hist keeps, per  *)
(* identity, the two Decisions of its latest consume.                      *)
(***************************************************************************)
PairConfigs == {<<"fixed", 2, 4>>, <<"sliding", 2, 4>>, <<"token", 2, 4>>}

\* the fields of a Decision that every strategy returns
Common(dec) ==
    [limited |-> dec.limited, remaining |-> dec.remaining,
     resetTime |-> dec.resetTime, consumed |-> dec.consumed]

InitPair ==
    /\ \E c \in PairConfigs :
          strategy = c[1] /\ limit = c[2] /\ windowMs = c[3]
    /\ backend = "memory"
    /\ weightByPath = FALSE
    /\ weights = <<>>
    /\ redisClient = TRUE
    /\ built = "middleware"
    /\ now = 0
    /\ store = <<>>
    /\ flight = [other |-> <<>>]
    /\ last = NoOp
    /\ hist = [id \in Identities |->
                  [memory |-> NoDecision, redis |-> NoDecision]]

\* no call is half made
BetweenCalls == backend = "memory" /\ last.op = "none"

\* consume on the memory limiter; the turn passes to the Redis limiter
ConsumeMemory(id, weight) ==
    /\ BetweenCalls
    /\ \E res \in {StrategyConsume(store, id, weight, now)} :
          /\ flight' = [other |-> res.store]
          /\ last' = Called(id, weight, res.dec)
    /\ store' = flight.other
    /\ backend' = "redis"
    /\ UNCHANGED <<strategy, limit, windowMs, weightByPath, weights, redisClient, built, now, hist>>

\* the same consume on the Redis limiter; the call is made
ConsumeRedis ==
    /\ backend = "redis"
    /\ \E res \in {StrategyConsume(store, last.id, last.weight, now)} :
          /\ flight' = [other |-> res.store]
          /\ hist' = [hist EXCEPT
                        ![last.id] = [memory |-> Common(last.dec),
                                      redis |-> Common(res.dec)]]
    /\ store' = flight.other
    /\ backend' = "memory"
    /\ last' = NoOp
    /\ UNCHANGED <<strategy, limit, windowMs, weightByPath, weights, redisClient, built, now>>

\* the entries resetKey leaves, whatever the store
StrategyResetKey(st, id, t) ==
    CASE strategy = "fixed" -> FixedResetKey(st, id, t)
      [] strategy = "sliding" -> SlidingResetKey(st, id, t)
      [] strategy = "token" -> TokenResetKey(st, id)

\* resetKey(key) on both limiters
ResetKeyBoth(id) ==
    /\ BetweenCalls
    /\ StrategyResetKey(store, id, now) # store
    /\ store' = StrategyResetKey(store, id, now)
    /\ flight' = [other |-> StrategyResetKey(flight.other, id, now)]
    /\ UNCHANGED <<config, now, last, hist>>

\* resetAll() on both limiters: MemoryStore.reset clears the Map,
\* RedisStore.reset deletes the keys that start with the prefix
ResetAllBoth ==
    /\ BetweenCalls
    /\ store # <<>>
    /\ store' = <<>>
    /\ flight' = [other |-> <<>>]
    /\ UNCHANGED <<config, now, last, hist>>

\* the clock moves on for both; the Redis server drops the keys whose time
\* is up
TickBoth(d) ==
    /\ BetweenCalls
    /\ now + d <= MaxTime
    /\ now' = now + d
    /\ flight' = [other |-> RedisExpire(flight.other, now + d)]
    /\ UNCHANGED <<config, store, last, hist>>

\* the memory store's sweep timer fires
GcMemory ==
    /\ BetweenCalls
    /\ MemoryGc(store, now) # store
    /\ store' = MemoryGc(store, now)
    /\ UNCHANGED <<config, flight, now, last, hist>>

NextPair ==
    \/ \E id \in Identities, weight \in Weights : ConsumeMemory(id, weight)
    \/ ConsumeRedis
    \/ \E id \in Identities : ResetKeyBoth(id)
    \/ ResetAllBoth
    \/ \E d \in 1..MaxStep : TickBoth(d)
    \/ GcMemory

SpecPair == InitPair /\ [][NextPair]_vars

\* C27: for each strategy, the limiter on the memory store and the limiter
\* on the Redis store, given the same calls at the same times one at a
\* time, return the same limited, remaining, resetTime and consumed at
\* every consume.
C27_BackendsAgree ==
    \A id \in Identities : hist[id].memory = hist[id].redis

=============================================================================
